---- MODULE Spec2Model ----
(***************************************************************************)
(* A model of MonStim_CSV_Analysis: EMG_Utils.py (EMGSession, EMGDataset)  *)
(* and emg_transform.py (rectify_emg, calculate_average_amplitude,         *)
(* calculate_mean_std).                                                    *)
(*                                                                         *)
(* Units.  Times are whole milliseconds, scan rates are Hz, stimulus       *)
(* voltages and bin sizes are hundredths of a volt, samples are tenths of  *)
(* a millivolt.  Arithmetic is exact: a float the code computes is the     *)
(* rational [n, d] in lowest terms, and not-a-number is NaN.               *)
(*                                                                         *)
(* Spec   the objects: sessions constructed and reloaded from pickled      *)
(*        records, a dataset built over them, and their operations.        *)
(* SpecD  two sessions and the datasets built over them.                   *)
(* SpecS  sessions whose recordings share a voltage, reloaded and pooled.  *)
(* SpecC  the configuration changing under sessions and datasets.          *)
(* SpecT  the functions of emg_transform.py and the H-reflex test, applied *)
(*        to inputs drawn from bounded sets.                               *)
(***************************************************************************)
EXTENDS Integers, Sequences, FiniteSets, TLC

VARIABLES config, sessions, dataset, out, call

vars == <<config, sessions, dataset, out, call>>

----------------------------------------------------------------------------
(* Bounds of the model.                                                    *)

\* Recordings of one pickled record.
MaxRecs == 2
\* Recordings held by all sessions together.
MaxPooled == 3
\* Length of the longest list of custom channel names a caller passes.
MaxNames == 2
\* Largest millisecond offset handed to the functions of emg_transform.py.
MaxMs == 3
\* Recordings handed to calculate_mean_std and to sorted().
MaxListed == 3

----------------------------------------------------------------------------
(* Python and numpy primitives.                                            *)

Min(a, b) == IF a <= b THEN a ELSE b
Max(a, b) == IF a >= b THEN a ELSE b
Abs(x) == IF x < 0 THEN -x ELSE x

RECURSIVE Gcd(_, _)
Gcd(a, b) == IF b = 0 THEN a ELSE Gcd(b, a % b)

\* A float: n/d in lowest terms with d > 0; NaN is 0/0.
NaN == [n |-> 0, d |-> 0]
IsNaN(x) == x.d = 0
Rat(n, d) ==
  IF d = 0 THEN NaN
  ELSE LET s == IF d < 0 THEN -1 ELSE 1
           g == Gcd(Abs(n), Abs(d))
       IN  [n |-> (s * n) \div g, d |-> (s * d) \div g]
RAdd(x, y) == IF IsNaN(x) \/ IsNaN(y) THEN NaN ELSE Rat(x.n * y.d + y.n * x.d, x.d * y.d)
RSub(x, y) == IF IsNaN(x) \/ IsNaN(y) THEN NaN ELSE Rat(x.n * y.d - y.n * x.d, x.d * y.d)
RMul(x, y) == IF IsNaN(x) \/ IsNaN(y) THEN NaN ELSE Rat(x.n * y.n, x.d * y.d)
RDivInt(x, k) == IF IsNaN(x) THEN NaN ELSE Rat(x.n, x.d * k)

\* The integer nearest to num / den, for num >= 0 and den > 0; halves go up.
NearestInt(num, den) == (2 * num + den) \div (2 * den)

\* int(num / den) for den > 0: truncation toward zero.
PyInt(num, den) == IF num >= 0 THEN num \div den ELSE -((-num) \div den)

\* round(num / den) for den > 0: to the nearest integer, a tie to the even one.
PyRound(num, den) ==
  LET q == num \div den
      r == num - q * den
  IN  IF 2 * r < den THEN q
      ELSE IF 2 * r > den THEN q + 1
      ELSE IF q % 2 = 0 THEN q ELSE q + 1

\* The position a slice bound i names in a sequence of length n.
SliceIndex(i, n) == IF i < 0 THEN Max(i + n, 0) ELSE Min(i, n)
\* seq[a:b], with 0-based a and b.
PySlice(seq, a, b) == SubSeq(seq, SliceIndex(a, Len(seq)) + 1, SliceIndex(b, Len(seq)))
\* seq[:b]
PySliceTo(seq, b) == SubSeq(seq, 1, SliceIndex(b, Len(seq)))

RECURSIVE SeqSum(_)
SeqSum(seq) == IF seq = <<>> THEN 0 ELSE Head(seq) + SeqSum(Tail(seq))

RECURSIVE RSum(_)
RSum(xs) == IF xs = <<>> THEN Rat(0, 1) ELSE RAdd(Head(xs), RSum(Tail(xs)))

\* np.mean of a sequence of integers.
NpMeanInt(seq) == IF seq = <<>> THEN NaN ELSE Rat(SeqSum(seq), Len(seq))
\* np.mean of a list of floats.
NpMean(xs) == IF xs = <<>> THEN NaN ELSE RDivInt(RSum(xs), Len(xs))
\* np.std of a list of floats, held as its square (the population variance).
NpStd(xs) ==
  IF xs = <<>> THEN NaN
  ELSE LET mu == NpMean(xs)
           dev == [i \in 1..Len(xs) |-> RMul(RSub(xs[i], mu), RSub(xs[i], mu))]
       IN  NpMean(dev)

SeqMax(seq) == CHOOSE x \in {seq[i] : i \in 1..Len(seq)} : \A j \in 1..Len(seq) : seq[j] <= x
SeqMin(seq) == CHOOSE x \in {seq[i] : i \in 1..Len(seq)} : \A j \in 1..Len(seq) : x <= seq[j]

----------------------------------------------------------------------------
(* emg_transform.py                                                        *)

rectify_emg(emg_array) == [i \in 1..Len(emg_array) |-> Abs(emg_array[i])]

calculate_average_amplitude(emg_data, start_ms, end_ms, scan_rate) ==
  LET start_index == PyInt(start_ms * scan_rate, 1000)
      end_index == PyInt(end_ms * scan_rate, 1000)
      emg_window == PySlice(emg_data, start_index, end_index)
      rectified_emg_window == rectify_emg(emg_window)
  IN  NpMeanInt(rectified_emg_window)

\* int(stimulus_v / bin_size) * bin_size: the bin below instead of the nearest.
BinnedDown(stimulus_v, bin_size) == (stimulus_v \div bin_size) * bin_size

\* round(stimulus_v / bin_size) * bin_size, for bin_size > 0.
BinnedStimulusV(stimulus_v, bin_size) == PyRound(stimulus_v, bin_size) * bin_size

\* The loop of calculate_mean_std from recording i on; acc holds the two lists
\* built so far and, in matched, the positions of the recordings appended.
RECURSIVE MeanStdLoop(_, _, _, _, _, _, _, _, _, _, _)
MeanStdLoop(recordings, i, acc, stimulus_value, channel_index, m_start_ms, m_end_ms, h_start_ms, h_end_ms, bin_size, scan_rate) ==
  IF i > Len(recordings) THEN acc
  ELSE IF bin_size = 0 THEN [acc EXCEPT !.error = "ZeroDivisionError"]
  ELSE LET recording == recordings[i]
           binned_stimulus_v == BinnedStimulusV(recording.stimulus_v, bin_size)
       IN  IF binned_stimulus_v = stimulus_value
           THEN IF channel_index >= Len(recording.channel_data)
                THEN [acc EXCEPT !.error = "IndexError"]
                ELSE LET channel_data == recording.channel_data[channel_index + 1]
                         m_wave_amplitude ==
                           calculate_average_amplitude(channel_data, m_start_ms, m_end_ms, scan_rate)
                         h_response_amplitude ==
                           calculate_average_amplitude(channel_data, h_start_ms, h_end_ms, scan_rate)
                     IN  MeanStdLoop(recordings, i + 1,
                           [acc EXCEPT !.matched = Append(@, i),
                                       !.m_wave_amplitudes = Append(@, m_wave_amplitude),
                                       !.h_response_amplitudes = Append(@, h_response_amplitude)],
                           stimulus_value, channel_index, m_start_ms, m_end_ms,
                           h_start_ms, h_end_ms, bin_size, scan_rate)
           ELSE MeanStdLoop(recordings, i + 1, acc, stimulus_value, channel_index,
                            m_start_ms, m_end_ms, h_start_ms, h_end_ms, bin_size, scan_rate)

\* The result of calculate_mean_std: the four statistics (a standard deviation
\* held as its square), or the error raised; with the lists they were taken over.
calculate_mean_std(recordings, stimulus_value, channel_index, m_start_ms, m_end_ms, h_start_ms, h_end_ms, bin_size, scan_rate) ==
  LET acc == MeanStdLoop(recordings, 1,
               [error |-> "none", matched |-> <<>>, m_wave_amplitudes |-> <<>>,
                h_response_amplitudes |-> <<>>],
               stimulus_value, channel_index, m_start_ms, m_end_ms,
               h_start_ms, h_end_ms, bin_size, scan_rate)
      ok == acc.error = "none"
  IN  [error |-> acc.error,
       matched |-> acc.matched,
       m_wave_amplitudes |-> acc.m_wave_amplitudes,
       h_response_amplitudes |-> acc.h_response_amplitudes,
       m_wave_mean |-> IF ok THEN NpMean(acc.m_wave_amplitudes) ELSE NaN,
       m_wave_std |-> IF ok THEN NpStd(acc.m_wave_amplitudes) ELSE NaN,
       h_response_mean |-> IF ok THEN NpMean(acc.h_response_amplitudes) ELSE NaN,
       h_response_std |-> IF ok THEN NpStd(acc.h_response_amplitudes) ELSE NaN]

----------------------------------------------------------------------------
(* The data: pickled session records, and the configuration.               *)

\* config = utils.load_config('config.yaml'): the defaults of the windows (ms),
\* of the displayed time window (ms) and of the bin size (1/100 V).
DefaultConfig ==
  [m_start |-> 1, m_end |-> 2, h_start |-> 2, h_end |-> 4, time_window |-> 3, bin_size |-> 5]

SessionIds == {"s1", "s2"}

\* The keys load_session_data reads from session_info, in the order it reads them.
InfoKeys ==
  <<"session_name", "num_channels", "scan_rate", "num_samples", "stim_duration",
    "stim_interval", "emg_amp_gains">>

Wa == <<0, 3, -1, 2>>
Wb == <<1, -2, 0, -4>>

\* session_info of the records: one channel at 1 kHz, two channels at 1 kHz, and
\* two channels at 200 Hz, where the windows of DefaultConfig hold no sample.
Info(num_channels, scan_rate) ==
  [session_name |-> "A", num_channels |-> num_channels, scan_rate |-> scan_rate,
   num_samples |-> 4, stim_duration |-> 1, stim_interval |-> 1, emg_amp_gains |-> 1000]

Infos == {Info(1, 1000), Info(2, 1000), Info(2, 200)}

ChannelData(w, num_channels) ==
  [c \in 1..num_channels |-> IF c = 1 THEN w ELSE rectify_emg(w)]

\* The recordings a record may hold: at 1.01 V and 1.04 V with one channel, at
\* 1.04 V and 1.06 V with two; 1.04 V and 1.06 V share a bin of DefaultConfig.
RecTypes(num_channels) ==
  IF num_channels = 1
  THEN { [stimulus_v |-> 101, channel_data |-> ChannelData(Wa, num_channels)],
         [stimulus_v |-> 104, channel_data |-> ChannelData(Wb, num_channels)] }
  ELSE { [stimulus_v |-> 104, channel_data |-> ChannelData(Wb, num_channels)],
         [stimulus_v |-> 106, channel_data |-> ChannelData(Wa, num_channels)] }

DropKey(f, k) == [x \in DOMAIN f \ {k} |-> f[x]]

\* What a record lacks: nothing, a top-level key, a key of session_info, or the
\* stimulus_v of its recording number index.
NoDefect == [kind |-> "none", key |-> "", index |-> 0]
Defects(n) ==
  {[kind |-> "top", key |-> k, index |-> 0] : k \in {"session_info", "recordings"}}
    \cup {[kind |-> "info", key |-> InfoKeys[i], index |-> 0] : i \in 1..Len(InfoKeys)}
    \cup {[kind |-> "rec", key |-> "stimulus_v", index |-> i] : i \in 1..n}

\* The unpickled session_data of a record with session_info info and recordings
\* recs, lacking what defect names.
SessionData(info, recs, defect) ==
  LET whole == [session_info |-> info, recordings |-> recs]
  IN  CASE defect.kind = "none" -> whole
        [] defect.kind = "top" -> DropKey(whole, defect.key)
        [] defect.kind = "info" ->
             [whole EXCEPT !.session_info = DropKey(info, defect.key)]
        [] defect.kind = "rec" ->
             [whole EXCEPT !.recordings[defect.index] = DropKey(@, "stimulus_v")]

----------------------------------------------------------------------------
(* EMGSession                                                              *)

\* An insertion that puts r before the recordings of its own voltage.
RECURSIVE InsertBeforeTies(_, _)
InsertBeforeTies(sorted_prefix, r) ==
  IF sorted_prefix = <<>> THEN <<r>>
  ELSE LET last == sorted_prefix[Len(sorted_prefix)]
       IN  IF last.stimulus_v < r.stimulus_v
           THEN Append(sorted_prefix, r)
           ELSE Append(InsertBeforeTies(SubSeq(sorted_prefix, 1, Len(sorted_prefix) - 1), r), last)

\* sorted(recordings, key=lambda x: x['stimulus_v']): r goes behind every
\* recording of the sorted prefix whose key is not greater (the sort is stable).
RECURSIVE InsertByStimulus(_, _)
InsertByStimulus(sorted_prefix, r) ==
  IF sorted_prefix = <<>> THEN <<r>>
  ELSE LET last == sorted_prefix[Len(sorted_prefix)]
       IN  IF last.stimulus_v <= r.stimulus_v
           THEN Append(sorted_prefix, r)
           ELSE Append(InsertByStimulus(SubSeq(sorted_prefix, 1, Len(sorted_prefix) - 1), r), last)

\* Not sorted at all: the recordings in the order of the record.
Unsorted(recordings) == recordings

RECURSIVE SortedByStimulus(_)
SortedByStimulus(recordings) ==
  IF recordings = <<>> THEN <<>>
  ELSE InsertByStimulus(SortedByStimulus(SubSeq(recordings, 1, Len(recordings) - 1)),
                        recordings[Len(recordings)])

\* The assignments self.<key> = session_info[<key>] from key number i on: the
\* first absent key raises KeyError and leaves the keys before it assigned.
RECURSIVE AssignInfo(_, _, _)
AssignInfo(self, session_info, i) ==
  IF i > Len(InfoKeys) THEN [self |-> self, error |-> "none", key |-> ""]
  ELSE IF InfoKeys[i] \notin DOMAIN session_info
       THEN [self |-> self, error |-> "KeyError", key |-> InfoKeys[i]]
       ELSE AssignInfo([self EXCEPT ![InfoKeys[i]] = session_info[InfoKeys[i]]],
                       session_info, i + 1)

\* A load that passes over absent keys: nothing is assigned and nothing raised.
LoadLenient(self, session_data) == [self |-> self, error |-> "none", key |-> ""]

\* load_session_data on the object self: the object afterwards and the error raised.
load_session_data(self, session_data) ==
  IF "session_info" \notin DOMAIN session_data
  THEN [self |-> self, error |-> "KeyError", key |-> "session_info"]
  ELSE LET a == AssignInfo(self, session_data.session_info, 1)
       IN  IF a.error # "none" THEN a
           ELSE IF "recordings" \notin DOMAIN session_data
           THEN [self |-> a.self, error |-> "KeyError", key |-> "recordings"]
           ELSE IF \E i \in 1..Len(session_data.recordings) :
                     "stimulus_v" \notin DOMAIN session_data.recordings[i]
           THEN [self |-> a.self, error |-> "KeyError", key |-> "stimulus_v"]
           ELSE [self |-> [a.self EXCEPT !.recordings = SortedByStimulus(session_data.recordings)],
                 error |-> "none", key |-> ""]

\* A slot that holds no EMGSession object (yet).
NoSession ==
  [st |-> "Unloaded", session_name |-> "", num_channels |-> 0, scan_rate |-> 0,
   num_samples |-> 0, stim_duration |-> 0, stim_interval |-> 0, emg_amp_gains |-> 0,
   recordings |-> <<>>, m_start |-> 0, m_end |-> 0, h_start |-> 0, h_end |-> 0,
   time_window_ms |-> 0]

\* A constructor that takes the windows from the configuration file as first
\* read instead of the configuration as it is.
InitFromDefaults(session_data, cfg) ==
  LET l == load_session_data(NoSession, session_data)
  IN  IF l.error # "none" THEN [self |-> NoSession, error |-> l.error, key |-> l.key]
      ELSE [self |-> [l.self EXCEPT !.st = "Loaded",
                                    !.m_start = DefaultConfig.m_start,
                                    !.m_end = DefaultConfig.m_end,
                                    !.h_start = DefaultConfig.h_start,
                                    !.h_end = DefaultConfig.h_end,
                                    !.time_window_ms = DefaultConfig.time_window],
            error |-> "none", key |-> ""]

\* EMGSession.__init__: the object constructed, or the error that leaves none.
EMGSession_init(session_data, cfg) ==
  LET l == load_session_data(NoSession, session_data)
  IN  IF l.error # "none" THEN [self |-> NoSession, error |-> l.error, key |-> l.key]
      ELSE [self |-> [l.self EXCEPT !.st = "Loaded",
                                    !.m_start = cfg.m_start, !.m_end = cfg.m_end,
                                    !.h_start = cfg.h_start, !.h_end = cfg.h_end,
                                    !.time_window_ms = cfg.time_window],
            error |-> "none", key |-> ""]

\* The last operation: its arguments (session_data, emg_sessions, the number of
\* channel names), what it raised (error, at the expression at, on the key key)
\* and what it handed to the display.
NoOut ==
  [op |-> "none", target |-> "none", session_data |-> <<>>, emg_sessions |-> <<>>,
   error |-> "none", at |-> "", key |-> "", names |-> 0, reported |-> FALSE,
   printed |-> <<>>, titles |-> <<>>, plotted |-> <<>>,
   time_axis |-> <<>>, pooled |-> <<>>, levels |-> <<>>, curves |-> <<>>]

\* A list of n custom channel names, and the titles an axis may carry.
ChannelNames(n) == [k \in 1..n |-> [kind |-> "custom", index |-> k - 1, suffix |-> ""]]
DefaultTitle(channel_index, suffix) == [kind |-> "default", index |-> channel_index, suffix |-> suffix]
CustomTitle(name, suffix) == [name EXCEPT !.suffix = suffix]
Unset == [kind |-> "unset", index |-> 0, suffix |-> ""]

\* "Handle custom channel names parameter if specified": whether the names are
\* used, and whether the mismatch message is printed.
HandleChannelNames(channel_names, num_channels) ==
  IF Len(channel_names) = 0 THEN [customNames |-> FALSE, reported |-> FALSE]
  ELSE IF Len(channel_names) # num_channels THEN [customNames |-> FALSE, reported |-> TRUE]
  ELSE [customNames |-> TRUE, reported |-> FALSE]

\* A time axis that does not end with the samples: one entry for every sample
\* period of the time window.
TimeAxisOfWindow(self) ==
  [k \in 1..PyInt(self.time_window_ms * self.scan_rate, 1000) |-> Rat((k - 1) * 1000, self.scan_rate)]

\* time_values_ms[:num_samples_time_window]
TimeAxis(self) ==
  LET time_values_ms == [k \in 1..self.num_samples |-> Rat((k - 1) * 1000, self.scan_rate)]
      num_samples_time_window == PyInt(self.time_window_ms * self.scan_rate, 1000)
  IN  PySliceTo(time_values_ms, num_samples_time_window)

\* channel_data[:num_samples_time_window], the samples plotted against time_axis
ChannelSlice(self, channel_data) ==
  PySliceTo(channel_data, PyInt(self.time_window_ms * self.scan_rate, 1000))

\* recording['channel_data'][channel_index][int(h_start * scan_rate / 1000):int(h_end * scan_rate / 1000)]
HWindow(recording, channel_index, h_start, h_end, scan_rate) ==
  PySlice(recording.channel_data[channel_index + 1],
          PyInt(h_start * scan_rate, 1000), PyInt(h_end * scan_rate, 1000))

\* An H-reflex test that takes an empty window for no candidate.
DetectHSilent(recording, channel_index, h_start, h_end, scan_rate, h_threshold) ==
  LET h_window == HWindow(recording, channel_index, h_start, h_end, scan_rate)
  IN  [error |-> "none",
       candidate |-> h_window # <<>> /\ SeqMax(h_window) - SeqMin(h_window) > h_threshold]

\* max(h_window) - min(h_window) > h_threshold; max of an empty window raises.
DetectH(recording, channel_index, h_start, h_end, scan_rate, h_threshold) ==
  LET h_window == HWindow(recording, channel_index, h_start, h_end, scan_rate)
  IN  IF h_window = <<>> THEN [error |-> "ValueError", candidate |-> FALSE]
      ELSE [error |-> "none", candidate |-> SeqMax(h_window) - SeqMin(h_window) > h_threshold]

\* One pass of the body of the plotting loops of plot_emg ("raw"),
\* plot_emg_rectified ("rectified") and plot_emg_suspectedH ("suspectedH"), for
\* recording i and channel channel_index; st is the figure so far.
PlotStep(self, channel_names, customNames, kind, h_threshold, i, channel_index, st) ==
  LET recording == self.recordings[i]
      channel_data == recording.channel_data[channel_index + 1]
      h == IF kind = "suspectedH"
           THEN DetectH(recording, channel_index, self.h_start, self.h_end, self.scan_rate, h_threshold)
           ELSE [error |-> "none", candidate |-> TRUE]
      num_samples_time_window == PyInt(self.time_window_ms * self.scan_rate, 1000)
      shown == IF kind = "rectified" THEN rectify_emg(channel_data) ELSE channel_data
      y == PySliceTo(shown, num_samples_time_window)
      axis == IF self.num_channels = 1 THEN 0 ELSE channel_index
      suffix == IF kind = "rectified" THEN " (Rectified)" ELSE ""
      title == IF customNames THEN CustomTitle(channel_names[axis + 1], suffix)
               ELSE DefaultTitle(axis, suffix)
  IN  IF h.error # "none" THEN [st EXCEPT !.error = h.error, !.at = "max(h_window)"]
      ELSE IF ~h.candidate THEN st
      ELSE IF axis >= self.num_channels
      THEN [st EXCEPT !.error = "IndexError", !.at = "axes[channel_index]"]
      ELSE IF Len(TimeAxis(self)) # Len(y)
      THEN [st EXCEPT !.error = "ValueError", !.at = "plot(time_axis, channel_data)"]
      ELSE [st EXCEPT !.titles[axis + 1] = title,
                      !.plotted = Append(@, [rec |-> i, ch |-> channel_index])]

\* for recording in self.recordings: for channel_index, channel_data in
\* enumerate(recording['channel_data']): ..., from recording i, channel channel_index on.
RECURSIVE PlotLoop(_, _, _, _, _, _, _, _)
PlotLoop(self, channel_names, customNames, kind, h_threshold, i, channel_index, st) ==
  IF st.error # "none" \/ i > Len(self.recordings) THEN st
  ELSE IF channel_index >= Len(self.recordings[i].channel_data)
  THEN PlotLoop(self, channel_names, customNames, kind, h_threshold, i + 1, 0, st)
  ELSE PlotLoop(self, channel_names, customNames, kind, h_threshold, i, channel_index + 1,
                PlotStep(self, channel_names, customNames, kind, h_threshold, i, channel_index, st))

\* plot_emg, plot_emg_rectified and plot_emg_suspectedH (the marker lines of
\* m_flags and h_flags and the legends are not part of the result).
PlotWaveforms(self, id, op, kind, channel_names, h_threshold) ==
  LET c == HandleChannelNames(channel_names, self.num_channels)
      st0 == [NoOut EXCEPT !.op = op, !.target = id, !.names = Len(channel_names),
                           !.reported = c.reported, !.time_axis = TimeAxis(self),
                           !.titles = [a \in 1..self.num_channels |-> Unset]]
  IN  PlotLoop(self, channel_names, c.customNames, kind, h_threshold, 1, 0, st0)

\* EMGSession.plot_reflex_curves: channels channel_index.. of the figure st.
RECURSIVE SessionCurves(_, _, _, _, _)
SessionCurves(self, channel_names, customNames, channel_index, st) ==
  IF channel_index >= self.num_channels THEN st
  ELSE IF \E i \in 1..Len(self.recordings) :
            channel_index >= Len(self.recordings[i].channel_data)
  THEN [st EXCEPT !.error = "IndexError", !.at = "recording['channel_data'][channel_index]"]
  ELSE LET points ==
             [i \in 1..Len(self.recordings) |->
                LET channel_data == self.recordings[i].channel_data[channel_index + 1]
                IN  [stimulus_v |-> self.recordings[i].stimulus_v,
                     m_wave_amplitude |->
                       calculate_average_amplitude(channel_data, self.m_start, self.m_end, self.scan_rate),
                     h_response_amplitude |->
                       calculate_average_amplitude(channel_data, self.h_start, self.h_end, self.scan_rate)]]
           title == IF customNames THEN CustomTitle(channel_names[channel_index + 1], "")
                    ELSE DefaultTitle(channel_index, "")
       IN  SessionCurves(self, channel_names, customNames, channel_index + 1,
                         [st EXCEPT !.curves = Append(@, points),
                                    !.titles[channel_index + 1] = title])

EMGSession_plot_reflex_curves(self, id, channel_names) ==
  LET c == HandleChannelNames(channel_names, self.num_channels)
      st0 == [NoOut EXCEPT !.op = "plot_reflex_curves", !.target = id,
                           !.names = Len(channel_names), !.reported = c.reported,
                           !.titles = [a \in 1..self.num_channels |-> Unset]]
  IN  SessionCurves(self, channel_names, c.customNames, 0, st0)

\* session_parameters prints the seven fields of session_info.
EMGSession_session_parameters(self, id) ==
  [NoOut EXCEPT !.op = "session_parameters", !.target = id,
                !.printed = [k \in 1..Len(InfoKeys) |-> self[InfoKeys[k]]]]

----------------------------------------------------------------------------
(* EMGDataset                                                              *)

NoDataset ==
  [exists |-> FALSE, emg_sessions |-> <<>>, scan_rate |-> 0, num_channels |-> 0,
   m_start |-> 0, m_end |-> 0, h_start |-> 0, h_end |-> 0, bin_size |-> 0]

\* A constructor that does not read emg_sessions[0] of an empty list.
DatasetOfAny(emg_sessions, ss, cfg) ==
  [self |-> [exists |-> TRUE, emg_sessions |-> emg_sessions,
             scan_rate |-> IF emg_sessions = <<>> THEN 0 ELSE ss[emg_sessions[1]].scan_rate,
             num_channels |-> IF emg_sessions = <<>> THEN 0 ELSE ss[emg_sessions[1]].num_channels,
             m_start |-> cfg.m_start, m_end |-> cfg.m_end,
             h_start |-> cfg.h_start, h_end |-> cfg.h_end,
             bin_size |-> cfg.bin_size],
   error |-> "none", at |-> ""]

\* EMGDataset.__init__ on a list of session objects (held by their ids; ss are
\* the objects): emg_sessions[0] of an empty list raises IndexError.
EMGDataset_init(emg_sessions, ss, cfg) ==
  IF Len(emg_sessions) = 0
  THEN [self |-> NoDataset, error |-> "IndexError", at |-> "emg_sessions[0]"]
  ELSE [self |-> [exists |-> TRUE, emg_sessions |-> emg_sessions,
                  scan_rate |-> ss[emg_sessions[1]].scan_rate,
                  num_channels |-> ss[emg_sessions[1]].num_channels,
                  m_start |-> cfg.m_start, m_end |-> cfg.m_end,
                  h_start |-> cfg.h_start, h_end |-> cfg.h_end,
                  bin_size |-> cfg.bin_size],
        error |-> "none", at |-> ""]

\* Only the recordings of the first session.
UnpackFirst(emg_sessions, ss) ==
  IF emg_sessions = <<>> THEN <<>> ELSE ss[Head(emg_sessions)].recordings

\* recordings = []; for session in self.emg_sessions: recordings.extend(session.recordings)
RECURSIVE UnpackRecordings(_, _)
UnpackRecordings(emg_sessions, ss) ==
  IF emg_sessions = <<>> THEN <<>>
  ELSE ss[Head(emg_sessions)].recordings \o UnpackRecordings(Tail(emg_sessions), ss)

\* sorted(recordings, key=lambda x: x['stimulus_v'])
SortedRecordings(self, ss) == SortedByStimulus(UnpackRecordings(self.emg_sessions, ss))

\* sorted(...) of a set of integers.
RECURSIVE SortedSet(_)
SortedSet(S) ==
  IF S = {} THEN <<>>
  ELSE LET least == CHOOSE x \in S : \A y \in S : x <= y
       IN  <<least>> \o SortedSet(S \ {least})

\* The levels of the recordings and, besides, the level 0 V no recording is at.
LevelsAndZero(sorted_recordings, bin_size) ==
  SortedSet({0} \cup {BinnedStimulusV(sorted_recordings[i].stimulus_v, bin_size) :
                        i \in 1..Len(sorted_recordings)})

\* The binned voltage of every recording, one entry per recording.
BinnedOfEach(sorted_recordings, bin_size) ==
  [i \in 1..Len(sorted_recordings) |-> BinnedStimulusV(sorted_recordings[i].stimulus_v, bin_size)]

\* sorted(list(set([round(recording['stimulus_v'] / self.bin_size) * self.bin_size
\*                  for recording in sorted_recordings])))
StimulusVoltages(sorted_recordings, bin_size) ==
  SortedSet({BinnedStimulusV(sorted_recordings[i].stimulus_v, bin_size) :
               i \in 1..Len(sorted_recordings)})

\* for stimulus_v in stimulus_voltages: calculate_mean_std(...), from level k on;
\* acc holds the statistics appended so far.
RECURSIVE LevelStats(_, _, _, _, _, _)
LevelStats(self, sorted_recordings, stimulus_voltages, channel_index, k, acc) ==
  IF k > Len(stimulus_voltages) THEN [error |-> "none", stats |-> acc]
  ELSE LET r == calculate_mean_std(sorted_recordings, stimulus_voltages[k], channel_index,
                                   self.m_start, self.m_end, self.h_start, self.h_end,
                                   self.bin_size, self.scan_rate)
       IN  IF r.error # "none" THEN [error |-> r.error, stats |-> acc]
           ELSE LevelStats(self, sorted_recordings, stimulus_voltages, channel_index, k + 1,
                           Append(acc, r))

\* The title Dataset.plot_reflex_curves gives channel channel_index: with one
\* channel 'Channel 0', then the custom name if customNames; with more, line
\* 511 indexes channel_names whenever the list is not empty.
DatasetTitle(self, channel_names, customNames, channel_index) ==
  IF self.num_channels = 1
  THEN [error |-> "none",
        title |-> IF customNames THEN CustomTitle(channel_names[1], "")
                  ELSE DefaultTitle(0, "")]
  ELSE IF Len(channel_names) = 0
  THEN [error |-> "none", title |-> DefaultTitle(channel_index, "")]
  ELSE IF channel_index >= Len(channel_names)
  THEN [error |-> "IndexError", title |-> Unset]
  ELSE [error |-> "none", title |-> CustomTitle(channel_names[channel_index + 1], "")]

\* for channel_index in range(self.num_channels): ..., from channel_index on.
RECURSIVE DatasetCurves(_, _, _, _, _, _, _)
DatasetCurves(self, channel_names, customNames, sorted_recordings, stimulus_voltages, channel_index, st) ==
  IF channel_index >= self.num_channels THEN st
  ELSE LET l == LevelStats(self, sorted_recordings, stimulus_voltages, channel_index, 1, <<>>)
           t == DatasetTitle(self, channel_names, customNames, channel_index)
       IN  IF l.error # "none"
           THEN [st EXCEPT !.error = l.error, !.at = "recording['channel_data'][channel_index]"]
           ELSE IF t.error # "none"
           THEN [st EXCEPT !.error = t.error, !.at = "channel_names[channel_index]",
                           !.curves = Append(@, l.stats)]
           ELSE DatasetCurves(self, channel_names, customNames, sorted_recordings,
                              stimulus_voltages, channel_index + 1,
                              [st EXCEPT !.curves = Append(@, l.stats),
                                         !.titles[channel_index + 1] = t.title])

EMGDataset_plot_reflex_curves(self, ss, channel_names) ==
  LET c == HandleChannelNames(channel_names, self.num_channels)
      sorted_recordings == SortedRecordings(self, ss)
      st0 == [NoOut EXCEPT !.op = "plot_reflex_curves", !.target = "dataset",
                           !.names = Len(channel_names), !.reported = c.reported,
                           !.pooled = sorted_recordings,
                           !.titles = [a \in 1..self.num_channels |-> Unset]]
  IN  IF self.bin_size = 0 /\ sorted_recordings # <<>>
      THEN [st0 EXCEPT !.error = "ZeroDivisionError", !.at = "recording['stimulus_v'] / self.bin_size"]
      ELSE LET stimulus_voltages == StimulusVoltages(sorted_recordings, self.bin_size)
           IN  DatasetCurves(self, channel_names, c.customNames, sorted_recordings,
                             stimulus_voltages, 0, [st0 EXCEPT !.levels = stimulus_voltages])

----------------------------------------------------------------------------
(* The operations as actions.                                              *)

NoCall == [fn |-> "none"]

Loaded == {s \in SessionIds : sessions[s].st = "Loaded"}

RECURSIVE TotalRecs(_)
TotalRecs(S) ==
  IF S = {} THEN 0
  ELSE LET s == CHOOSE x \in S : TRUE
       IN  Len(sessions[s].recordings) + TotalRecs(S \ {s})

\* The recordings a record loaded into s may hold within the bounds.
Room(s) == Min(MaxRecs, MaxPooled - TotalRecs(SessionIds \ {s}))

\* Thresholds of plot_emg_suspectedH: the default 0.3 mV.
Thresholds == {3}

Init ==
  /\ config = DefaultConfig
  /\ sessions = [s \in SessionIds |-> NoSession]
  /\ dataset = NoDataset
  /\ out = NoOut
  /\ call = NoCall

\* s = EMGSession(pickled_session_data)
ConstructFrom(s, session_data) ==
  LET r == EMGSession_init(session_data, config)
  IN  /\ sessions' = [sessions EXCEPT ![s] = r.self]
      /\ out' = [NoOut EXCEPT !.op = "EMGSession", !.target = s,
                              !.session_data = session_data,
                              !.error = r.error, !.key = r.key]

Construct(s) ==
  /\ sessions[s].st = "Unloaded"
  /\ \E info \in Infos :
       \/ \E n \in 0..Room(s) :
            \E recs \in [1..n -> RecTypes(info.num_channels)] :
              ConstructFrom(s, SessionData(info, recs, NoDefect))
       \/ \E defect \in Defects(1) :
            LET rec == CHOOSE x \in RecTypes(info.num_channels) : TRUE
            IN  ConstructFrom(s, SessionData(info, <<rec>>, defect))
  /\ UNCHANGED <<config, dataset, call>>

\* s.load_session_data(pickled_data) on a session that exists
ReloadFrom(s, session_data) ==
  LET r == load_session_data(sessions[s], session_data)
  IN  /\ sessions' = [sessions EXCEPT ![s] = r.self]
      /\ out' = [NoOut EXCEPT !.op = "load_session_data", !.target = s,
                              !.error = r.error, !.key = r.key]

Reload(s) ==
  /\ sessions[s].st = "Loaded"
  /\ \E info \in Infos :
       \/ \E n \in 0..Room(s) :
            \E recs \in [1..n -> RecTypes(info.num_channels)] :
              ReloadFrom(s, SessionData(info, recs, NoDefect))
       \/ \E defect \in Defects(1) :
            LET rec == CHOOSE x \in RecTypes(info.num_channels) : TRUE
            IN  ReloadFrom(s, SessionData(info, <<rec>>, defect))
  /\ UNCHANGED <<config, dataset, call>>

SessionParameters(s) ==
  /\ sessions[s].st = "Loaded"
  /\ out' = EMGSession_session_parameters(sessions[s], s)
  /\ UNCHANGED <<config, sessions, dataset, call>>

PlotEmg(s) ==
  /\ sessions[s].st = "Loaded"
  /\ \E n \in 0..MaxNames :
       out' = PlotWaveforms(sessions[s], s, "plot_emg", "raw", ChannelNames(n), 0)
  /\ UNCHANGED <<config, sessions, dataset, call>>

PlotEmgRectified(s) ==
  /\ sessions[s].st = "Loaded"
  /\ \E n \in 0..MaxNames :
       out' = PlotWaveforms(sessions[s], s, "plot_emg_rectified", "rectified", ChannelNames(n), 0)
  /\ UNCHANGED <<config, sessions, dataset, call>>

PlotEmgSuspectedH(s) ==
  /\ sessions[s].st = "Loaded"
  /\ \E n \in 0..MaxNames, h_threshold \in Thresholds :
       out' = PlotWaveforms(sessions[s], s, "plot_emg_suspectedH", "suspectedH",
                            ChannelNames(n), h_threshold)
  /\ UNCHANGED <<config, sessions, dataset, call>>

PlotReflexCurves(s) ==
  /\ sessions[s].st = "Loaded"
  /\ \E n \in 0..MaxNames :
       out' = EMGSession_plot_reflex_curves(sessions[s], s, ChannelNames(n))
  /\ UNCHANGED <<config, sessions, dataset, call>>

\* Lists of session objects: none, one, or two different ones in either order.
SessionLists ==
  {<<>>} \cup {<<a>> : a \in Loaded}
    \cup {<<p[1], p[2]>> : p \in {q \in Loaded \X Loaded : q[1] # q[2]}}

\* d = EMGDataset(emg_sessions)
DatasetConstruct ==
  /\ \E emg_sessions \in SessionLists :
       LET r == EMGDataset_init(emg_sessions, sessions, config)
       IN  /\ dataset' = IF r.error = "none" THEN r.self ELSE dataset
           /\ out' = [NoOut EXCEPT !.op = "EMGDataset", !.target = "dataset",
                                   !.emg_sessions = emg_sessions,
                                   !.error = r.error, !.at = r.at]
  /\ UNCHANGED <<config, sessions, call>>

DatasetPlotReflexCurves ==
  /\ dataset.exists
  /\ \E n \in 0..MaxNames :
       out' = EMGDataset_plot_reflex_curves(dataset, sessions, ChannelNames(n))
  /\ UNCHANGED <<config, sessions, dataset, call>>

----------------------------------------------------------------------------
(* Spec: one session, every operation on it, and datasets over it.         *)

Next ==
  \/ Construct("s1")
  \/ Reload("s1")
  \/ SessionParameters("s1")
  \/ PlotEmg("s1")
  \/ PlotEmgRectified("s1")
  \/ PlotEmgSuspectedH("s1")
  \/ PlotReflexCurves("s1")
  \/ DatasetConstruct
  \/ DatasetPlotReflexCurves

Spec == Init /\ [][Next]_vars

----------------------------------------------------------------------------
(* SpecD: two sessions and the datasets over them.                         *)

NextD ==
  \/ \E s \in SessionIds : Construct(s)
  \/ DatasetConstruct
  \/ DatasetPlotReflexCurves

SpecD == Init /\ [][NextD]_vars

----------------------------------------------------------------------------
(* SpecS: sessions of recordings that share a stimulus voltage, loaded,    *)
(* reloaded and pooled.                                                    *)

\* One-channel recordings at 1.01 V and, with different samples, two at 1.04 V.
TiedTypes ==
  { [stimulus_v |-> 101, channel_data |-> <<Wa>>],
    [stimulus_v |-> 104, channel_data |-> <<Wa>>],
    [stimulus_v |-> 104, channel_data |-> <<Wb>>] }

\* The records of one channel at 1 kHz with up to n such recordings.
TiedRecords(n) ==
  {SessionData(Info(1, 1000), recs, NoDefect) : recs \in UNION {[1..k -> TiedTypes] : k \in 0..n}}

ConstructTied(s) ==
  /\ sessions[s].st = "Unloaded"
  /\ \E session_data \in TiedRecords(Room(s)) : ConstructFrom(s, session_data)
  /\ UNCHANGED <<config, dataset, call>>

ReloadTied(s) ==
  /\ sessions[s].st = "Loaded"
  /\ \E session_data \in TiedRecords(Room(s)) : ReloadFrom(s, session_data)
  /\ UNCHANGED <<config, dataset, call>>

NextS ==
  \/ \E s \in SessionIds : ConstructTied(s)
  \/ \E s \in SessionIds : ReloadTied(s)
  \/ DatasetConstruct
  \/ DatasetPlotReflexCurves

SpecS == Init /\ [][NextS]_vars

----------------------------------------------------------------------------
(* SpecC: the configuration changes, and parameters of instances are       *)
(* overridden, while sessions and datasets are constructed.                *)

\* The key of the configuration a field of a session or a dataset is copied from.
SessionFields ==
  [m_start |-> "m_start", m_end |-> "m_end", h_start |-> "h_start", h_end |-> "h_end",
   time_window_ms |-> "time_window"]
DatasetFields ==
  [m_start |-> "m_start", m_end |-> "m_end", h_start |-> "h_start", h_end |-> "h_end",
   bin_size |-> "bin_size"]

\* The value a key is set to besides the one of the configuration file.
Other(key) == DefaultConfig[key] + 1

\* s = EMGSession(pickled_data) on a record of one channel at 1 kHz
ConstructPlain(s) ==
  /\ sessions[s].st = "Unloaded"
  /\ \E n \in 0..1 :
       \E recs \in [1..n -> RecTypes(1)] :
         ConstructFrom(s, SessionData(Info(1, 1000), recs, NoDefect))
  /\ UNCHANGED <<config, dataset, call>>

\* config[key] = value, for one key away from the configuration file at a time
SetConfig ==
  /\ \E key \in DOMAIN config : \E value \in {DefaultConfig[key], Other(key)} :
       /\ \A k \in DOMAIN config \ {key} : config[k] = DefaultConfig[k]
       /\ config[key] # value
       /\ config' = [config EXCEPT ![key] = value]
  /\ out' = [NoOut EXCEPT !.op = "config"]
  /\ UNCHANGED <<sessions, dataset, call>>

\* s.<field> = value on a session, one field away from the file's value at a time
OverrideSession(s) ==
  /\ sessions[s].st = "Loaded"
  /\ \E field \in DOMAIN SessionFields :
       /\ \A f \in DOMAIN SessionFields \ {field} :
            sessions[s][f] = DefaultConfig[SessionFields[f]]
       /\ sessions[s][field] # Other(SessionFields[field])
       /\ sessions' = [sessions EXCEPT ![s][field] = Other(SessionFields[field])]
  /\ out' = [NoOut EXCEPT !.op = "override", !.target = s]
  /\ UNCHANGED <<config, dataset, call>>

\* d.<field> = value on a dataset
OverrideDataset ==
  /\ dataset.exists
  /\ \E field \in DOMAIN DatasetFields :
       /\ \A f \in DOMAIN DatasetFields \ {field} :
            dataset[f] = DefaultConfig[DatasetFields[f]]
       /\ dataset[field] # Other(DatasetFields[field])
       /\ dataset' = [dataset EXCEPT ![field] = Other(DatasetFields[field])]
  /\ out' = [NoOut EXCEPT !.op = "override", !.target = "dataset"]
  /\ UNCHANGED <<config, sessions, call>>

NextC ==
  \/ \E s \in SessionIds : ConstructPlain(s)
  \/ SetConfig
  \/ \E s \in SessionIds : OverrideSession(s)
  \/ OverrideDataset
  \/ DatasetConstruct

SpecC == Init /\ [][NextC]_vars

----------------------------------------------------------------------------
(* SpecT: one application of a function to inputs drawn from bounded sets. *)

\* Sample sequences: none, two samples, four samples.
Waves == {<<>>, <<2, -5>>, Wa, Wb}
\* Scan rates (Hz): a millisecond is 0.2, 0.5, 1 or 1.5 samples.
Rates == {200, 500, 1000, 1500}
\* One-channel recordings at 1.01, 1.02, 1.04 and 1.06 V; two share 1.04 V.
Listed ==
  { [stimulus_v |-> 101, channel_data |-> <<Wa>>],
    [stimulus_v |-> 102, channel_data |-> <<Wb>>],
    [stimulus_v |-> 104, channel_data |-> <<Wb>>],
    [stimulus_v |-> 104, channel_data |-> <<Wa>>],
    [stimulus_v |-> 106, channel_data |-> <<Wa>>] }
RecordingLists == UNION {[1..n -> Listed] : n \in 0..MaxListed}
\* Bin sizes (1/100 V); 1.02 V and 1.06 V lie halfway between two bins of 0.04 V.
BinSizes == {4, 5}
\* Thresholds of the H-reflex test (1/10 mV).
HThresholds == {0, 3, 4}
\* Target voltages: the three multiples of bin_size from 1.00 V on.
Targets(bin_size) == {k * bin_size : k \in (100 \div bin_size)..(100 \div bin_size + 2)}

TAverage ==
  /\ call.fn = "none"
  /\ \E emg_data \in Waves, start_ms \in 0..MaxMs, end_ms \in 0..MaxMs, scan_rate \in Rates :
       call' = [fn |-> "calculate_average_amplitude", emg_data |-> emg_data,
                start_ms |-> start_ms, end_ms |-> end_ms, scan_rate |-> scan_rate,
                result |-> calculate_average_amplitude(emg_data, start_ms, end_ms, scan_rate)]
  /\ UNCHANGED <<config, sessions, dataset, out>>

TMeanStd ==
  /\ call.fn = "none"
  /\ \E recordings \in RecordingLists, bin_size \in BinSizes, scan_rate \in {200, 1000},
        channel_index \in {0, 1} :
       \E stimulus_value \in Targets(bin_size) :
         call' = [fn |-> "calculate_mean_std", recordings |-> recordings,
                  stimulus_value |-> stimulus_value, channel_index |-> channel_index,
                  bin_size |-> bin_size, scan_rate |-> scan_rate,
                  result |-> calculate_mean_std(recordings, stimulus_value, channel_index,
                               config.m_start, config.m_end, config.h_start, config.h_end,
                               bin_size, scan_rate)]
  /\ UNCHANGED <<config, sessions, dataset, out>>

TDetectH ==
  /\ call.fn = "none"
  /\ \E emg_data \in Waves, h_start \in 0..MaxMs, h_end \in 0..MaxMs,
        scan_rate \in Rates, h_threshold \in HThresholds :
       LET r == [stimulus_v |-> 101, channel_data |-> <<emg_data>>]
       IN  call' = [fn |-> "detect_h", recording |-> r, channel_index |-> 0,
                    h_start |-> h_start, h_end |-> h_end, scan_rate |-> scan_rate,
                    h_threshold |-> h_threshold,
                    result |-> DetectH(r, 0, h_start, h_end, scan_rate, h_threshold)]
  /\ UNCHANGED <<config, sessions, dataset, out>>

\* Samples per channel the session_info of a record states.
SampleCounts == {2, 4}

\* The time axis of a session and the samples of one channel plotted against it.
TTimeAxis ==
  /\ call.fn = "none"
  /\ \E num_samples \in SampleCounts, scan_rate \in Rates, time_window_ms \in 0..MaxMs,
        channel_data \in Waves :
       LET self == [NoSession EXCEPT !.st = "Loaded", !.num_samples = num_samples,
                                     !.scan_rate = scan_rate,
                                     !.time_window_ms = time_window_ms]
       IN  call' = [fn |-> "time_axis", num_samples |-> num_samples, scan_rate |-> scan_rate,
                    time_window_ms |-> time_window_ms, channel_data |-> channel_data,
                    result |-> [time_axis |-> TimeAxis(self),
                                channel_slice |-> ChannelSlice(self, channel_data)]]
  /\ UNCHANGED <<config, sessions, dataset, out>>

TSorted ==
  /\ call.fn = "none"
  /\ \E recordings \in RecordingLists :
       call' = [fn |-> "sorted", recordings |-> recordings,
                result |-> SortedByStimulus(recordings)]
  /\ UNCHANGED <<config, sessions, dataset, out>>

NextT ==
  \/ TAverage
  \/ TMeanStd
  \/ TDetectH
  \/ TTimeAxis
  \/ TSorted

SpecT == Init /\ [][NextT]_vars

----------------------------------------------------------------------------
(* The properties.                                                         *)

IsSortedByStimulus(recordings) ==
  \A i, j \in 1..Len(recordings) :
    i < j => recordings[i].stimulus_v <= recordings[j].stimulus_v

\* How often r occurs in seq.
Count(seq, r) == Cardinality({i \in 1..Len(seq) : seq[i] = r})

\* C1: once a session is loaded its recordings are non-decreasing by stimulus_v,
\* whatever the order of the record's recordings, and they stay so under every
\* operation on the session and on a dataset over it; the load keeps every
\* recording of the record.
C1_RecordingsSorted ==
  /\ \A s \in SessionIds :
       sessions[s].st = "Loaded" => IsSortedByStimulus(sessions[s].recordings)
  /\ (out.op = "EMGSession" /\ out.error = "none") =>
       LET given == out.session_data.recordings
           kept == sessions[out.target].recordings
       IN  /\ Len(kept) = Len(given)
           /\ \A i \in 1..Len(given) : Count(kept, given[i]) = Count(given, given[i])

\* A session was loaded from a record whose recordings were not in order.
C1_Witness ==
  /\ out.op = "EMGSession"
  /\ out.error = "none"
  /\ ~IsSortedByStimulus(out.session_data.recordings)
  /\ sessions[out.target].st = "Loaded"


\* The 0-based indices of seq that lie in [floor(start_ms * scan_rate / 1000),
\* floor(end_ms * scan_rate / 1000)), for offsets that are not negative.
WindowIndices(seq, start_ms, end_ms, scan_rate) ==
  {i \in 0..(Len(seq) - 1) :
     /\ (start_ms * scan_rate) \div 1000 <= i
     /\ i < (end_ms * scan_rate) \div 1000}

RECURSIVE SumAbs(_, _)
SumAbs(seq, idx) ==
  IF idx = {} THEN 0
  ELSE LET i == CHOOSE x \in idx : TRUE
       IN  Abs(seq[i + 1]) + SumAbs(seq, idx \ {i})

\* C2: for every sample sequence, start_ms, end_ms and scan_rate,
\* calculate_average_amplitude returns a non-negative value, the arithmetic mean
\* of the absolute values of exactly the samples at the indices
\* [floor(start_ms*scan_rate/1000), floor(end_ms*scan_rate/1000)).
C2_AverageAmplitude ==
  call.fn = "calculate_average_amplitude" =>
    LET idx == WindowIndices(call.emg_data, call.start_ms, call.end_ms, call.scan_rate)
    IN  /\ ~IsNaN(call.result)
        /\ call.result.n >= 0
        /\ call.result.n * Cardinality(idx) = SumAbs(call.emg_data, idx) * call.result.d

\* C2, where the window holds a sample: the value is that mean and not negative.
C2_NonEmptyWindow ==
  call.fn = "calculate_average_amplitude" =>
    LET idx == WindowIndices(call.emg_data, call.start_ms, call.end_ms, call.scan_rate)
    IN  idx # {} =>
          /\ ~IsNaN(call.result)
          /\ call.result.n >= 0
          /\ call.result.n * Cardinality(idx) = SumAbs(call.emg_data, idx) * call.result.d

\* The multiple of bin_size nearest to stimulus_v; of two equally near, the even one.
NearestBin(stimulus_v, bin_size) ==
  LET ks == 0..(stimulus_v \div bin_size + 1)
      dist(k) == Abs(stimulus_v - k * bin_size)
      best == {k \in ks : \A j \in ks : dist(k) <= dist(j)}
  IN  bin_size * (CHOOSE k \in best : Cardinality(best) = 1 \/ k % 2 = 0)

\* The positions, ascending, of the recordings whose bin is stimulus_value.
RECURSIVE InBin(_, _, _, _)
InBin(recordings, i, stimulus_value, bin_size) ==
  IF i > Len(recordings) THEN <<>>
  ELSE IF NearestBin(recordings[i].stimulus_v, bin_size) = stimulus_value
  THEN <<i>> \o InBin(recordings, i + 1, stimulus_value, bin_size)
  ELSE InBin(recordings, i + 1, stimulus_value, bin_size)

\* C3: calculate_mean_std takes its statistics over exactly the recordings whose
\* binned voltage round(stimulus_v / bin_size) * bin_size is the target, no more
\* and no fewer; for 1.01, 1.04 and 1.06 V with bin_size 0.05 V and target
\* 1.05 V these are recordings 2 and 3.
C3_PoolsMatchingBin ==
  (call.fn = "calculate_mean_std" /\ call.result.error = "none") =>
    LET r == call.result
        want == InBin(call.recordings, 1, call.stimulus_value, call.bin_size)
        data(k) == call.recordings[want[k]].channel_data[call.channel_index + 1]
        m == [k \in 1..Len(want) |->
                calculate_average_amplitude(data(k), config.m_start, config.m_end, call.scan_rate)]
        h == [k \in 1..Len(want) |->
                calculate_average_amplitude(data(k), config.h_start, config.h_end, call.scan_rate)]
    IN  /\ r.matched = want
        /\ r.m_wave_amplitudes = m
        /\ r.h_response_amplitudes = h
        /\ r.m_wave_mean = NpMean(m) /\ r.m_wave_std = NpStd(m)
        /\ r.h_response_mean = NpMean(h) /\ r.h_response_std = NpStd(h)
        /\ ( /\ [i \in 1..Len(call.recordings) |-> call.recordings[i].stimulus_v] = <<101, 104, 106>>
             /\ call.bin_size = 5
             /\ call.stimulus_value = 105 ) => r.matched = <<2, 3>>

\* The statistics were taken for 1.05 V over recordings at 1.01, 1.04 and 1.06 V
\* with bins of 0.05 V.
C3_Witness ==
  /\ call.fn = "calculate_mean_std"
  /\ call.result.error = "none"
  /\ Len(call.recordings) = 3
  /\ [i \in 1..3 |-> call.recordings[i].stimulus_v] = <<101, 104, 106>>
  /\ call.bin_size = 5
  /\ call.stimulus_value = 105
  /\ call.result.matched = <<2, 3>>
  /\ ~IsNaN(call.result.m_wave_mean)

Range(seq) == {seq[i] : i \in 1..Len(seq)}

\* How often r occurs among the recordings of the sessions emg_sessions names.
RECURSIVE MemberCount(_, _)
MemberCount(emg_sessions, r) ==
  IF emg_sessions = <<>> THEN 0
  ELSE Count(sessions[Head(emg_sessions)].recordings, r) + MemberCount(Tail(emg_sessions), r)

\* The number of recordings of the sessions emg_sessions names.
RECURSIVE MemberLen(_)
MemberLen(emg_sessions) ==
  IF emg_sessions = <<>> THEN 0
  ELSE Len(sessions[Head(emg_sessions)].recordings) + MemberLen(Tail(emg_sessions))

DatasetPlotted == out.op = "plot_reflex_curves" /\ out.target = "dataset"

\* C4: the recordings a Dataset.plot_reflex_curves call pools are a permutation
\* of the concatenation of the member sessions' recordings, non-decreasing by
\* stimulus_v; their count is the sum of the sessions' counts, no recording
\* being dropped or duplicated.
C4_PooledIsSortedConcatenation ==
  DatasetPlotted =>
    LET members == dataset.emg_sessions
        all == Range(out.pooled) \cup UNION {Range(sessions[s].recordings) : s \in SessionIds}
    IN  /\ Len(members) > 0
        /\ IsSortedByStimulus(out.pooled)
        /\ \A r \in all : Count(out.pooled, r) = MemberCount(members, r)
        /\ Len(out.pooled) = MemberLen(members)

\* A dataset of two sessions with recordings was plotted, the first session
\* ending on a higher voltage than the second starts with.
C4_Witness ==
  /\ DatasetPlotted
  /\ out.error = "none"
  /\ Len(dataset.emg_sessions) = 2
  /\ LET a == sessions[dataset.emg_sessions[1]].recordings
         b == sessions[dataset.emg_sessions[2]].recordings
     IN  /\ a # <<>>
         /\ b # <<>>
         /\ a[Len(a)].stimulus_v > b[1].stimulus_v

\* C5: the voltage levels of the curves Dataset.plot_reflex_curves computes are
\* strictly ascending and are exactly the distinct binned stimulus voltages of
\* the pooled recordings; every channel's curve holds one tuple of statistics
\* per level, taken over the recordings of that level, and a call that
\* completes holds a curve for every channel.
C5_LevelsAscendingDistinct ==
  DatasetPlotted =>
    LET levels == out.levels
        bins == {NearestBin(out.pooled[i].stimulus_v, dataset.bin_size) : i \in 1..Len(out.pooled)}
    IN  /\ \A j, k \in 1..Len(levels) : j < k => levels[j] < levels[k]
        /\ Range(levels) = bins
        /\ \A c \in 1..Len(out.curves) :
             /\ Len(out.curves[c]) = Len(levels)
             /\ \A k \in 1..Len(levels) :
                  /\ out.curves[c][k].matched # <<>>
                  /\ \A i \in 1..Len(out.pooled) :
                       (\E x \in 1..Len(out.curves[c][k].matched) : out.curves[c][k].matched[x] = i)
                         <=> NearestBin(out.pooled[i].stimulus_v, dataset.bin_size) = levels[k]
        /\ out.error = "none" => Len(out.curves) = dataset.num_channels

\* A dataset was plotted whose three pooled recordings fall into two levels.
C5_Witness ==
  /\ DatasetPlotted
  /\ out.error = "none"
  /\ Len(out.pooled) = 3
  /\ Len(out.levels) = 2
  /\ Len(out.curves) > 0

\* C6 as stated: constructing a Dataset from an empty sequence of sessions
\* fails with EmptyDatasetError, and no Dataset results.
C6_EmptyDatasetError ==
  (out.op = "EMGDataset" /\ out.emg_sessions = <<>>) => out.error = "EmptyDatasetError"

\* C6: constructing a Dataset from an empty sequence of sessions fails with
\* IndexError, raised by emg_sessions[0], and no Dataset results: a Dataset
\* that exists has a session.
C6_EmptyFailsIndexError ==
  /\ (out.op = "EMGDataset" /\ out.emg_sessions = <<>>) =>
       (out.error = "IndexError" /\ out.at = "emg_sessions[0]")
  /\ (out.op = "EMGDataset" /\ out.emg_sessions # <<>>) => out.error = "none"
  /\ dataset.exists => Len(dataset.emg_sessions) > 0

\* A construction from the empty list has failed while sessions were loaded.
C6_Witness ==
  /\ out.op = "EMGDataset"
  /\ out.emg_sessions = <<>>
  /\ out.error # "none"
  /\ \E s \in SessionIds : sessions[s].st = "Loaded"

\* The required keys a record lacks.
Lacking(session_data) ==
  {k \in {"session_info", "recordings"} : k \notin DOMAIN session_data}
    \cup (IF "session_info" \in DOMAIN session_data
          THEN {k \in Range(InfoKeys) : k \notin DOMAIN session_data.session_info}
          ELSE {})
    \cup (IF "recordings" \in DOMAIN session_data
          THEN {"stimulus_v" : i \in {j \in 1..Len(session_data.recordings) :
                                        "stimulus_v" \notin DOMAIN session_data.recordings[j]}}
          ELSE {})

\* C7 as stated: loading a record that lacks a required key fails with
\* MalformedSessionData, and no Loaded session is produced.
C7_MalformedSessionData ==
  (out.op = "EMGSession" /\ Lacking(out.session_data) # {}) =>
    (out.error = "MalformedSessionData" /\ sessions[out.target].st = "Unloaded")

\* C7: constructing a session from a record that lacks a required key
\* (session_info, one of its seven keys, recordings, or a recording's
\* stimulus_v) fails with KeyError on a lacking key, and no Loaded session is
\* produced; a record that lacks none loads.
C7_LackingKeyFailsKeyError ==
  out.op = "EMGSession" =>
    IF Lacking(out.session_data) # {}
    THEN /\ out.error = "KeyError"
         /\ out.key \in Lacking(out.session_data)
         /\ sessions[out.target].st = "Unloaded"
    ELSE /\ out.error = "none"
         /\ sessions[out.target].st = "Loaded"

\* A construction failed on a record whose only recording has no stimulus_v.
C7_Witness ==
  /\ out.op = "EMGSession"
  /\ Lacking(out.session_data) = {"stimulus_v"}
  /\ out.error = "KeyError"
  /\ sessions[out.target].st = "Unloaded"

\* C8: Loaded is terminal: load_session_data on a Loaded session changes neither
\* its state nor its data, and no operation takes a session out of Loaded.
C8_LoadedIsTerminal ==
  [][\A s \in SessionIds :
       sessions[s].st = "Loaded" =>
         /\ sessions'[s].st = "Loaded"
         /\ (out'.op = "load_session_data" /\ out'.target = s) => sessions'[s] = sessions[s]]_vars

\* C8, the part the operations keep: a Loaded session stays Loaded, and only a
\* construction takes a session from Unloaded to Loaded.
C8_OnlyUnloadedToLoaded ==
  [][\A s \in SessionIds :
       /\ sessions[s].st = "Loaded" => sessions'[s].st = "Loaded"
       /\ (sessions[s].st = "Unloaded" /\ sessions'[s].st = "Loaded") =>
            (out'.op = "EMGSession" /\ out'.target = s /\ out'.error = "none")]_vars

PlotOps == {"plot_emg", "plot_emg_rectified", "plot_emg_suspectedH", "plot_reflex_curves"}

\* The channels of the object the last operation was called on.
TargetChannels ==
  IF out.target = "dataset" THEN dataset.num_channels ELSE sessions[out.target].num_channels

\* The last operation plotted with a non-empty list of names of the wrong length.
Mismatched == out.op \in PlotOps /\ out.names > 0 /\ out.names # TargetChannels

\* C9: every plotting operation of a session and of a dataset that is given a
\* non-empty list of channel names of a length other than num_channels reports
\* the mismatch, does not fail over the names, and titles every channel
\* 'Channel <index>', never with a name of the caller.
C9_MismatchDefaultLabels ==
  Mismatched =>
    /\ out.reported
    /\ out.at # "channel_names[channel_index]"
    /\ \A a \in 1..Len(out.titles) : out.titles[a].kind # "custom"

\* C9 for the operations of a session: the mismatch is reported and every title
\* set is the default one of its axis.
C9_SessionOps ==
  (Mismatched /\ out.target # "dataset") =>
    /\ out.reported
    /\ out.at # "channel_names[channel_index]"
    /\ \A a \in 1..Len(out.titles) :
         out.titles[a].kind # "unset" =>
           (out.titles[a].kind = "default" /\ out.titles[a].index = a - 1)

\* The raw samples of the channel at the 0-based indices [floor(h_start *
\* scan_rate / 1000), floor(h_end * scan_rate / 1000)) that exist.
RawHSamples(recording, channel_index, h_start, h_end, scan_rate) ==
  LET raw == recording.channel_data[channel_index + 1]
  IN  {raw[i + 1] : i \in WindowIndices(raw, h_start, h_end, scan_rate)}

C11_ExplicitNoData ==
  /\ call.fn = "calculate_average_amplitude" =>
       (WindowIndices(call.emg_data, call.start_ms, call.end_ms, call.scan_rate) = {}
          => ~IsNaN(call.result) /\ call.result # Rat(0, 1))
  /\ (call.fn = "calculate_mean_std" /\ call.result.error = "none") =>
       LET r == call.result
           stats == {r.m_wave_mean, r.m_wave_std, r.h_response_mean, r.h_response_std}
       IN  (r.matched = <<>> \/ \E k \in 1..Len(r.m_wave_amplitudes) :
                                  IsNaN(r.m_wave_amplitudes[k]) \/ IsNaN(r.h_response_amplitudes[k]))
             => \A x \in stats : ~IsNaN(x) /\ x # Rat(0, 1)

\* C11, what the code does instead: an empty window and an empty match both
\* come back as not-a-number without an error, and a not-a-number amplitude of
\* one recording makes the mean over all matched recordings not-a-number.
C11_SilentNaN ==
  /\ call.fn = "calculate_average_amplitude" =>
       (IsNaN(call.result) <=>
          WindowIndices(call.emg_data, call.start_ms, call.end_ms, call.scan_rate) = {})
  /\ (call.fn = "calculate_mean_std" /\ call.result.error = "none") =>
       LET r == call.result
       IN  /\ r.matched = <<>> => IsNaN(r.m_wave_mean) /\ IsNaN(r.h_response_mean)
           /\ (\E k \in 1..Len(r.m_wave_amplitudes) : IsNaN(r.m_wave_amplitudes[k]))
                => IsNaN(r.m_wave_mean) /\ IsNaN(r.m_wave_std)

\* What a session and a dataset hold of the configuration cfg.
SessionCopy(cfg) ==
  [f \in DOMAIN SessionFields |-> cfg[SessionFields[f]]]
DatasetCopy(cfg) ==
  [f \in DOMAIN DatasetFields |-> cfg[DatasetFields[f]]]
SessionParams(self) == [f \in DOMAIN SessionFields |-> self[f]]
DatasetParams(self) == [f \in DOMAIN DatasetFields |-> self[f]]

\* A session or a dataset just constructed holds the values of the configuration.
CopiedAtConstruction ==
  /\ (out.op = "EMGSession" /\ out.error = "none") =>
       SessionParams(sessions[out.target]) = SessionCopy(config)
  /\ (out.op = "EMGDataset" /\ out.error = "none") =>
       DatasetParams(dataset) = DatasetCopy(config)

\* A change of the configuration changes no instance; an override on one
\* instance changes neither the configuration nor another instance.
InstancesApart ==
  /\ config' # config => (sessions' = sessions /\ dataset' = dataset)
  /\ out'.op = "override" =>
       /\ config' = config
       /\ \A s \in SessionIds : s # out'.target => sessions'[s] = sessions[s]
       /\ out'.target # "dataset" => dataset' = dataset

\* C12: a session copies m_start, m_end, h_start, h_end and time_window, and a
\* dataset m_start, m_end, h_start, h_end and bin_size, from the configuration
\* when it is constructed; a later change of the configuration leaves the
\* parameters of every instance as they are, and an override on one instance
\* changes neither the configuration nor any other instance.
C12_ConfigCopiedAtConstruction == [](CopiedAtConstruction) /\ [][InstancesApart]_vars

\* The configuration has changed under a session and a dataset constructed
\* before, which hold the values they copied.
C12_Witness ==
  /\ out.op = "config"
  /\ dataset.exists
  /\ DatasetParams(dataset) # DatasetCopy(config)
  /\ \E s \in SessionIds :
       /\ sessions[s].st = "Loaded"
       /\ SessionParams(sessions[s]) # SessionCopy(config)
       /\ SessionParams(sessions[s]) = SessionCopy(DefaultConfig)

\* floor(window_ms * scan_rate / 1000)
WindowCount(window_ms, scan_rate) == (window_ms * scan_rate) \div 1000

\* The entries of a time axis are 0, 1000/scan_rate, 2000/scan_rate, ...
EvenlySpaced(time_axis, scan_rate) ==
  \A k \in 1..Len(time_axis) : time_axis[k] = Rat((k - 1) * 1000, scan_rate)

\* C13 as stated: the time axis is [0, 1000/scan_rate, 2000/scan_rate, ...] with
\* exactly floor(window_ms * scan_rate / 1000) entries, also when that count
\* exceeds num_samples, and it is as long as the slice of channel samples it
\* is plotted with (num_samples being the samples a channel holds).
C13_AxisOfWindowCount ==
  (call.fn = "time_axis" /\ Len(call.channel_data) = call.num_samples) =>
    /\ EvenlySpaced(call.result.time_axis, call.scan_rate)
    /\ Len(call.result.time_axis) = WindowCount(call.time_window_ms, call.scan_rate)
    /\ Len(call.result.channel_slice) = Len(call.result.time_axis)

\* C13: the time axis is [0, 1000/scan_rate, 2000/scan_rate, ...] with
\* floor(window_ms * scan_rate / 1000) entries, but never more than
\* num_samples; it is as long as the slice of channel samples it is plotted
\* with whenever the channel holds num_samples samples.
C13_AxisWithinSamples ==
  call.fn = "time_axis" =>
    /\ EvenlySpaced(call.result.time_axis, call.scan_rate)
    /\ Len(call.result.time_axis) =
         Min(WindowCount(call.time_window_ms, call.scan_rate), call.num_samples)
    /\ Len(call.channel_data) = call.num_samples =>
         Len(call.result.channel_slice) = Len(call.result.time_axis)

\* A time axis was taken for a window of more sample periods than the channel,
\* which holds num_samples samples, has samples.
C13_Witness ==
  /\ call.fn = "time_axis"
  /\ WindowCount(call.time_window_ms, call.scan_rate) > call.num_samples
  /\ Len(call.channel_data) = call.num_samples
  /\ Len(call.result.time_axis) = call.num_samples

\* time_ms * scan_rate / 1000 cut to a whole number, and rounded to the nearest
\* one (of two equally near, the even one), for offsets that are not negative.
TruncatedIndex(time_ms, scan_rate) == (time_ms * scan_rate) \div 1000
RoundedIndex(time_ms, scan_rate) == NearestBin(time_ms * scan_rate, 1000) \div 1000

\* The 0-based indices of seq in [lo, hi).
IndicesBetween(seq, lo, hi) == {i \in 0..(Len(seq) - 1) : lo <= i /\ i < hi}

\* The last call sliced its window at the sample indices lo and hi: an average
\* amplitude is the mean of the absolute samples there (not-a-number over
\* none), an H-reflex test is taken over the samples there (and raises over none).
SlicedAt(lo, hi) ==
  /\ call.fn = "calculate_average_amplitude" =>
       LET idx == IndicesBetween(call.emg_data, lo, hi)
       IN  IF idx = {} THEN IsNaN(call.result)
           ELSE /\ ~IsNaN(call.result)
                /\ call.result.n * Cardinality(idx) = SumAbs(call.emg_data, idx) * call.result.d
  /\ call.fn = "detect_h" =>
       LET raw == call.recording.channel_data[call.channel_index + 1]
           w == {raw[i + 1] : i \in IndicesBetween(raw, lo, hi)}
       IN  IF w = {} THEN call.result.error = "ValueError"
           ELSE /\ call.result.error = "none"
                /\ call.result.candidate <=> (\E x, y \in w : x - y > call.h_threshold)

\* The offsets of the window of the last call, in milliseconds.
WindowOfCall ==
  IF call.fn = "calculate_average_amplitude"
  THEN [start |-> call.start_ms, end |-> call.end_ms]
  ELSE [start |-> call.h_start, end |-> call.h_end]

WindowSliced == call.fn \in {"calculate_average_amplitude", "detect_h"}

\* C14 as stated: the millisecond offsets of a window become the sample indices
\* round(time_ms * scan_rate / 1000), in the amplitude computation and in the
\* H-reflex test.
C14_RoundedIndex ==
  WindowSliced =>
    SlicedAt(RoundedIndex(WindowOfCall.start, call.scan_rate),
             RoundedIndex(WindowOfCall.end, call.scan_rate))

\* C14: the millisecond offsets of a window become the sample indices
\* int(time_ms * scan_rate / 1000), cut to a whole number and not rounded, in
\* the amplitude computation and in the H-reflex test.
C14_TruncatedIndex ==
  WindowSliced =>
    SlicedAt(TruncatedIndex(WindowOfCall.start, call.scan_rate),
             TruncatedIndex(WindowOfCall.end, call.scan_rate))

\* An amplitude was taken over a window whose start rounds to another index
\* than it is cut to, and the window held a sample.
C14_Witness ==
  /\ call.fn = "calculate_average_amplitude"
  /\ RoundedIndex(call.start_ms, call.scan_rate) # TruncatedIndex(call.start_ms, call.scan_rate)
  /\ ~IsNaN(call.result)
  /\ call.result # Rat(0, 1)

\* The recordings of seq at voltage v, in the order of seq.
RECURSIVE AtVoltage(_, _)
AtVoltage(seq, v) ==
  IF seq = <<>> THEN <<>>
  ELSE IF Head(seq).stimulus_v = v THEN <<Head(seq)>> \o AtVoltage(Tail(seq), v)
  ELSE AtVoltage(Tail(seq), v)

\* The recordings of seq voltage by voltage, the voltages vs ascending, the
\* recordings of one voltage in the order of seq.
RECURSIVE ByVoltage(_, _)
ByVoltage(seq, vs) ==
  IF vs = {} THEN <<>>
  ELSE LET v == CHOOSE x \in vs : \A y \in vs : x <= y
       IN  AtVoltage(seq, v) \o ByVoltage(seq, vs \ {v})

InStableOrder(seq) == ByVoltage(seq, {seq[i].stimulus_v : i \in 1..Len(seq)})

\* The recordings of the sessions emg_sessions names, session after session.
RECURSIVE MemberRecordings(_)
MemberRecordings(emg_sessions) ==
  IF emg_sessions = <<>> THEN <<>>
  ELSE sessions[Head(emg_sessions)].recordings \o MemberRecordings(Tail(emg_sessions))

\* C15: both orderings by stimulus_v are stable: a loaded session holds the
\* recordings of one voltage in the order of the record, and the pooled
\* recordings of a dataset hold those of one voltage in the order of the member
\* sessions and, within a session, in the session's order; the pooled
\* recordings are those the member sessions hold when the call is made.
C15_StableOrderings ==
  /\ (out.op = "EMGSession" /\ out.error = "none") =>
       sessions[out.target].recordings = InStableOrder(out.session_data.recordings)
  /\ DatasetPlotted =>
       out.pooled = InStableOrder(MemberRecordings(dataset.emg_sessions))

\* A dataset of two sessions was plotted, the first holding two different
\* recordings of one voltage and the second another of that voltage, which
\* is not the one the first begins with.
C15_Witness ==
  /\ DatasetPlotted
  /\ Len(dataset.emg_sessions) = 2
  /\ LET a == sessions[dataset.emg_sessions[1]].recordings
         b == sessions[dataset.emg_sessions[2]].recordings
     IN  /\ Len(a) = 2 /\ Len(b) = 1
         /\ a[1].stimulus_v = a[2].stimulus_v /\ a[1] # a[2]
         /\ b[1].stimulus_v = a[1].stimulus_v /\ b[1] # a[1]
         /\ out.pooled = a \o b

\* The levels of curve whose statistics recording number i of the pooled
\* recordings went into.
LevelsOf(curve, i) ==
  {k \in 1..Len(curve) : \E x \in 1..Len(curve[k].matched) : curve[k].matched[x] = i}

\* C16: in Dataset.plot_reflex_curves every level handed to calculate_mean_std
\* is matched by at least one pooled recording and every pooled recording by
\* exactly one level, once: the levels split the pooled recordings into
\* non-empty groups, for every channel a curve is computed for.
C16_LevelsPartitionPooled ==
  DatasetPlotted =>
    \A c \in 1..Len(out.curves) :
      LET curve == out.curves[c]
      IN  /\ \A k \in 1..Len(curve) :
               /\ curve[k].matched # <<>>
               /\ \A x, y \in 1..Len(curve[k].matched) :
                    curve[k].matched[x] = curve[k].matched[y] => x = y
               /\ \A x \in 1..Len(curve[k].matched) :
                    curve[k].matched[x] \in 1..Len(out.pooled)
          /\ \A i \in 1..Len(out.pooled) : Cardinality(LevelsOf(curve, i)) = 1

\* A dataset was plotted whose curve has two levels, one of them taken over
\* two of the three pooled recordings.
C16_Witness ==
  /\ DatasetPlotted
  /\ out.error = "none"
  /\ Len(out.pooled) = 3
  /\ \E c \in 1..Len(out.curves) :
       /\ Len(out.curves[c]) = 2
       /\ \E k \in 1..2 : Len(out.curves[c][k].matched) = 2

====
